---- MODULE Spec2Model ----
(***************************************************************************)
(* Model of the GitHub Actions workflow visualizer: the job dependency     *)
(* cycle search (findCircularDependencies), the rule-based validator       *)
(* (checkWorkflowForErrors) and the page / visualization-tab components    *)
(* that hold the parsed document and show the analyses.                    *)
(*                                                                         *)
(* Job ids are the numbers 1..n in insertion order of the `jobs` mapping.  *)
(* Ghost (0) is a name that is never a job id (a dangling reference).      *)
(* Negative numbers are the single characters of a string-valued `needs`;  *)
(* job ids are names of two characters or more, so no character is a job.  *)
(***************************************************************************)
EXTENDS Integers, Sequences, FiniteSets, TLC

\* ------------------------------------------------------------- bounds
MaxJobs == 3
MaxEdges == 4
MaxEdits == 5
MaxTyped == 3
MaxLines == 4
MaxVarEdits == 6

Ghost == 0

VARIABLES
  graph,      \* the Record<string, string[]> handed to findCircularDependencies
  cycleOut,   \* its return value
  cpc,        \* "build" while the graph is put together, "done" after the call,
              \* "drawn" after the jobs graph was laid out
  layout      \* createTreeLayout: the position given to each job node

cycleVars == <<graph, cycleOut, cpc, layout>>

VARIABLES
  checkedWf,  \* the value handed to checkWorkflowForErrors
  edits,      \* how many constructs the text under check has
  diag,       \* its run state: the errors returned, or that it threw
  vpc         \* "edit" while the text is typed, "done" after the call

checkVars == <<checkedWf, edits, diag, vpc>>

VARIABLES
  workflowCode,    \* Home: the text in the editor
  parsedWorkflow,  \* Home: the held document
  typed,           \* how many constructs the text in the editor has
  activeTab,       \* VisualizationTabs: the selected tab
  wg,              \* WorkflowGraph: its React state while mounted
  workflowChanged, \* the workflow prop changed since WorkflowGraph's effects last ran
  dirty,           \* a state update is waiting for its render
  screen,          \* what the visualization pane shows since the last render
  crashed          \* a render or effect threw: React unmounted the tree

uiVars ==
  <<workflowCode, parsedWorkflow, typed, activeTab, wg, workflowChanged, dirty, screen,
    crashed>>

VARIABLES
  yamlLines,  \* the yamlContent handed to parseWorkflow, as split('\n') sees it
  processed   \* what preprocessYaml made of it, line by line

textVars == <<yamlLines, processed>>

VARIABLES
  varDoc,     \* the document handed to the variable extractors
  varEdits,   \* how many constructs its text has
  info,       \* VariablesInfo: what analyzeVariables(workflow) returned
  nodeVars,   \* WorkflowGraph: analyzeStepVariables(step) of every step of every job
  suggestions \* Suggestions: what generateSuggestions(workflow) returned

extractVars == <<varDoc, varEdits, info, nodeVars, suggestions>>

vars == <<cycleVars, checkVars, uiVars, textVars, extractVars>>

\* ------------------------------------------------------------- helpers
Range(s) == {s[i] : i \in 1..Len(s)}

\* Array.prototype.includes
includes(s, x) == \E i \in 1..Len(s) : s[i] = x

\* an indexOf that always answers the first position
indexOfStart(s, x) == 1

\* Array.prototype.indexOf, 1-based; called only when includes(s, x)
indexOf(s, x) == CHOOSE i \in 1..Len(s) : s[i] = x /\ \A j \in 1..(i - 1) : s[j] # x

\* Array.prototype.slice(from) with a 1-based index
sliceFrom(s, from) == SubSeq(s, from, Len(s))

\* ------------------------------------------------------------- findCircularDependencies
\* A graph is [keys |-> sequence of job ids (Object.keys order),
\*             needs |-> function from each key to its sequence of entries].

\* graph[node] || []
neighbors(g, node) == IF includes(g.keys, node) THEN g.needs[node] ELSE <<>>

\* const cycle = [...path.slice(path.indexOf(node)), node]
cycleNoClose(path, node) == sliceFrom(path, indexOf(path, node))
cycleOf(path, node) == Append(sliceFrom(path, indexOf(path, node)), node)

\* path.pop()
popKeep(path) == path
pop(path) == SubSeq(path, 1, Len(path) - 1)

\* if (path.includes(node))
onPath(st, node) == includes(st.path, node)

RECURSIVE dfs(_, _, _)
RECURSIVE dfsEach(_, _, _, _)

\* a dfs without the visited set: a node is entered again on every path to it
dfsRevisit(g, node, st) ==
  IF Len(st.result) > 0 THEN st
  ELSE IF onPath(st, node)
    THEN [st EXCEPT !.result = st.result \o cycleOf(st.path, node)]
  ELSE LET entered == [st EXCEPT !.visited = @ \cup {node},
                                  !.path = Append(@, node)]
           after == dfsEach(g, neighbors(g, node), 1, entered)
       IN [after EXCEPT !.path = pop(@)]

\* a dfs that keeps searching after a cycle was pushed to result
dfsNoStop(g, node, st) ==
  IF onPath(st, node)
    THEN [st EXCEPT !.result = st.result \o cycleOf(st.path, node)]
  ELSE IF node \in st.visited THEN st
  ELSE LET entered == [st EXCEPT !.visited = @ \cup {node},
                                  !.path = Append(@, node)]
           after == dfsEach(g, neighbors(g, node), 1, entered)
       IN [after EXCEPT !.path = pop(@)]

\* function dfs(node), over the closure state st = [visited, path, result];
\* st.calls counts the calls dfs(neighbor) made so far
dfs(g, node, st) ==
  IF Len(st.result) > 0 THEN st
  ELSE IF onPath(st, node)
    THEN [st EXCEPT !.result = st.result \o cycleOf(st.path, node)]
  ELSE IF node \in st.visited THEN st
  ELSE LET entered == [st EXCEPT !.visited = @ \cup {node},
                                  !.path = Append(@, node)]
           after == dfsEach(g, neighbors(g, node), 1, entered)
       IN [after EXCEPT !.path = pop(@)]

\* for (const neighbor of graph[node] || []) dfs(neighbor)
dfsEach(g, ns, i, st) ==
  IF i > Len(ns) THEN st
  ELSE dfsEach(g, ns, i + 1, dfs(g, ns[i], [st EXCEPT !.calls = @ + 1]))

RECURSIVE roots(_, _, _)
\* for (const node of Object.keys(graph)) if (!visited.has(node)) dfs(node)
roots(g, i, st) ==
  IF i > Len(g.keys) THEN st
  ELSE roots(g, i + 1,
             IF g.keys[i] \notin st.visited THEN dfs(g, g.keys[i], st) ELSE st)

\* the closure state when the loop over Object.keys(graph) is through
searched(g) == roots(g, 1, [visited |-> {}, path |-> <<>>, result |-> <<>>, calls |-> 0])

findCircularDependencies(g) == searched(g).result

\* ------------------------------------------------------------- input graphs
\* The record built from the needs lists of jobs 1..n
GraphOf(lists) ==
  [keys |-> [i \in 1..Len(lists) |-> i],
   needs |-> [i \in 1..Len(lists) |-> lists[i]]]

RECURSIVE total(_)
\* the number of needs entries in the whole graph
total(lists) == IF Len(lists) = 0 THEN 0 ELSE Len(lists[1]) + total(Tail(lists))

\* ------------------------------------------------------------- documents
\* The value held as `workflow`, as js-yaml's load returns it:
\*   kind "null"   null / undefined (empty text)
\*   kind "falsy"  a falsy scalar (0, false)
\*   kind "scalar" a truthy non-mapping value (a string, a sequence)
\*   kind "map"    a mapping, with the fields the analyzers read:
\*     hasName  workflow.name is set
\*     env      workflow.env, per name "none" (key absent), "falsy" (present,
\*              bound to '', 0 or false) or "truthy"
\*     jobs     [present, list]: workflow.jobs absent, or the jobs in insertion
\*              order; job i has id i
\* A job is [null, needs, runsOn, env, steps]:
\*     null     the job body is null (`build:` with nothing under it)
\*     needs    [str, list]: a single string (str = TRUE, list = <<the id>>),
\*              or a list of ids (empty = no needs key)
\*     runsOn   "absent" (no runs-on key), "array" (a sequence of labels), or the
\*              string it is bound to: "" (runs-on: ""), "ubuntu-latest",
\*              "self-hosted-gpu", "my-runner"
\*     timeout  "absent" (no timeout_minutes key) or "set"
\*     steps    sequence of steps; a step is [run |-> sequence of tokens]
\* A token is a piece of text [k, p, n]: k = "word", "TODO", "AKIA", "b64"
\* (a run of 40 base64 characters) or "expr" (a ${{ p.n }} expression).
EnvNames == {"X", "Y"}
NoEnv == [e \in EnvNames |-> "none"]

Word == [k |-> "word", p |-> "", n |-> ""]
Todo == [k |-> "TODO", p |-> "", n |-> ""]
Akia == [k |-> "AKIA", p |-> "", n |-> ""]
B64 == [k |-> "b64", p |-> "", n |-> ""]
Expr(p, n) == [k |-> "expr", p |-> p, n |-> n]
\* the script lines `echo "NAME=v" >> $GITHUB_ENV` and `NAME=v >> $GITHUB_ENV`
Echo(name, v) == [k |-> "echo", p |-> name, n |-> v]
Assign(name, v) == [k |-> "assign", p |-> name, n |-> v]
Tokens ==
  {Word, Todo, Akia, B64, Expr("github", "sha"), Expr("vars", "V"), Expr("secrets", "S")}
    \cup {Expr("env", e) : e \in EnvNames}

CleanJob ==
  [null |-> FALSE, needs |-> [str |-> FALSE, list |-> <<>>],
   runsOn |-> "ubuntu-latest", env |-> NoEnv, timeout |-> "absent", steps |-> <<>>]
NullJob == [CleanJob EXCEPT !.null = TRUE]

EmptyMap ==
  [kind |-> "map", hasName |-> FALSE, env |-> NoEnv,
   jobs |-> [present |-> FALSE, list |-> <<>>]]
NullWf == [EmptyMap EXCEPT !.kind = "null"]
FalsyWf == [EmptyMap EXCEPT !.kind = "falsy"]
ScalarWf == [EmptyMap EXCEPT !.kind = "scalar"]

\* ------------------------------------------------------------- checkWorkflowForErrors
\* A diagnostic is [type, text, job, ref, chain, name]: the WorkflowError's type,
\* its message template and the values interpolated into it.
Diag(type, text, job, ref, chain, name) ==
  [type |-> type, text |-> text, job |-> job, ref |-> ref, chain |-> chain, name |-> name]

NoJobsError == Diag("error", "Workflow has no jobs defined", 0, 0, <<>>, "")
CycleError(chain) == Diag("error", "Circular dependencies detected: ", 0, 0, chain, "")
DanglingError(job, ref) == Diag("error", "depends on non-existent job", job, ref, <<>>, "")
RunnerWarning(job, runner) ==
  Diag("warning", "uses potentially invalid runner", job, 0, <<>>, runner)
NoRunnerError(job) == Diag("error", "does not specify a runner (runs-on)", job, 0, <<>>, "")
TodoWarning == Diag("warning", "Workflow contains TODO comments", 0, 0, <<>>, "")
SecretError == Diag("error", "Workflow may contain hardcoded credentials", 0, 0, <<>>, "")
EnvWarning(name) ==
  Diag("warning", "Environment variable is used but might not be defined", 0, 0, <<>>, name)
VarsInfo(name) == Diag("info", "Using repository variable", 0, 0, <<>>, name)
SecretsInfo(name) == Diag("info", "Using secret", 0, 0, <<>>, name)

\* The arrow that circularDeps.join puts between two job ids
Arrow == -1000
RECURSIVE join(_)
\* Array.prototype.join(' -> '): the elements with the separator between them
join(chain) ==
  IF Len(chain) <= 1 THEN chain
  ELSE <<chain[1], Arrow>> \o join(SubSeq(chain, 2, Len(chain)))

\* The characters of the string naming job `id` (two per name), as for..of yields them
chars(id) == <<-(2 * id + 1), -(2 * id + 2)>>

\* Reading a property of `workflow` throws for null and undefined only
propThrows(wf) == wf.kind = "null"

\* workflow.jobs is usable as a non-empty mapping
\* Object.keys(workflow.jobs || {})
jobIds(wf) ==
  IF wf.kind = "map" /\ wf.jobs.present
    THEN [i \in 1..Len(wf.jobs.list) |-> i] ELSE <<>>
jobAt(wf, id) == wf.jobs.list[id]

\* job.needs || [] as stored into dependencyGraph: a string stays a string and
\* is iterated character by character by findCircularDependencies
needsOrEmpty(job) == IF job.needs.str THEN chars(job.needs.list[1]) ELSE job.needs.list
dependencyGraph(wf) ==
  [keys |-> jobIds(wf),
   needs |-> [i \in Range(jobIds(wf)) |-> needsOrEmpty(jobAt(wf, i))]]

\* The run state of checkWorkflowForErrors: the errors pushed so far, and whether
\* a TypeError was thrown (after which no later statement runs).
Started == [errors |-> <<>>, threw |-> FALSE]
push(r, d) == [r EXCEPT !.errors = Append(@, d)]
throw(r) == [r EXCEPT !.threw = TRUE]

\* if (!workflow.jobs || Object.keys(workflow.jobs).length === 0)
checkNoJobs(wf, r) ==
  IF r.threw THEN r
  ELSE IF propThrows(wf) THEN throw(r)
  ELSE IF Len(jobIds(wf)) = 0 THEN push(r, NoJobsError) ELSE r

\* building dependencyGraph reads job.needs of every job: a null job throws
graphThrows(wf) == \E i \in Range(jobIds(wf)) : jobAt(wf, i).null

reportCycleAlways(circularDeps) == TRUE
reportCycle(circularDeps) == Len(circularDeps) > 0

checkCycle(wf, r) ==
  IF r.threw THEN r
  ELSE IF graphThrows(wf) THEN throw(r)
  ELSE LET circularDeps == findCircularDependencies(dependencyGraph(wf))
       IN IF reportCycle(circularDeps) THEN push(r, CycleError(join(circularDeps))) ELSE r

isMissingNever(ids, neededJob) == FALSE
\* !jobIds.includes(neededJob)
isMissing(ids, neededJob) == ~includes(ids, neededJob)

RECURSIVE eachNeed(_, _, _, _, _)
\* job.needs.forEach(neededJob => ...)
eachNeed(ids, jobId, needs, k, r) ==
  IF k > Len(needs) THEN r
  ELSE eachNeed(ids, jobId, needs, k + 1,
                IF isMissing(ids, needs[k]) THEN push(r, DanglingError(jobId, needs[k])) ELSE r)

RECURSIVE danglingFrom(_, _, _)
\* jobIds.forEach(jobId => { if (job.needs) job.needs.forEach(...) })
danglingFrom(wf, i, r) ==
  IF r.threw \/ i > Len(jobIds(wf)) THEN r
  ELSE LET job == jobAt(wf, i)
       IN danglingFrom(wf, i + 1,
            IF job.null \/ job.needs.str THEN throw(r)
            ELSE eachNeed(jobIds(wf), i, job.needs.list, 1, r))

checkDangling(wf, r) == IF r.threw THEN r ELSE danglingFrom(wf, 1, r)

commonRunners ==
  {"ubuntu-latest", "ubuntu-22.04", "ubuntu-20.04", "ubuntu-18.04",
   "windows-latest", "windows-2022", "windows-2019",
   "macos-latest", "macos-12", "macos-11", "self-hosted"}
\* runner.startsWith('self-hosted'), over the runner names of the documents
startsWithSelfHosted(runner) == runner \in {"self-hosted", "self-hosted-gpu"}
\* commonRunners.includes(runner) || runner.startsWith('self-hosted')
isValidRunner(runner) == runner \in commonRunners \/ startsWithSelfHosted(runner)

\* if (job['runs-on']) is false: the key is absent or bound to the empty string
runsOnFalsy(job) == job.runsOn \in {"absent", ""}

RECURSIVE runnersFrom(_, _, _)
runnersFrom(wf, i, r) ==
  IF r.threw \/ i > Len(jobIds(wf)) THEN r
  ELSE LET job == jobAt(wf, i)
       IN runnersFrom(wf, i + 1,
            IF job.null THEN throw(r)
            ELSE IF runsOnFalsy(job) THEN push(r, NoRunnerError(i))
            ELSE IF job.runsOn # "array" /\ ~isValidRunner(job.runsOn)
              THEN push(r, RunnerWarning(i, job.runsOn))
            ELSE r)

checkRunners(wf, r) == IF r.threw THEN r ELSE runnersFrom(wf, 1, r)

RECURSIVE concatAll(_)
concatAll(ss) == IF Len(ss) = 0 THEN <<>> ELSE ss[1] \o concatAll(Tail(ss))

\* JSON.stringify(workflow), as the sequence of the tokens of its string values
\* in document order (the run scripts of the steps of the jobs)
stepText(job) == concatAll([k \in 1..Len(job.steps) |-> job.steps[k].run])
workflowStr(wf) ==
  concatAll([i \in 1..Len(jobIds(wf)) |-> stepText(jobAt(wf, i))])

\* workflowStr.includes('TODO')
checkTodo(wf, r) ==
  IF r.threw THEN r
  ELSE IF includes(workflowStr(wf), Todo) THEN push(r, TodoWarning) ELSE r

\* workflowStr.includes('AKIA') || workflowStr.match(/([a-zA-Z0-9+/]{40}|...{50,})/)
checkSecrets(wf, r) ==
  IF r.threw THEN r
  ELSE IF includes(workflowStr(wf), Akia) \/ includes(workflowStr(wf), B64)
    THEN push(r, SecretError) ELSE r

\* workflowStr.match(/\$\{\{\s*[^}]+\s*\}\}/g) || []
IsExpr(t) == t.k = "expr"
variableMatches(wf) == SelectSeq(workflowStr(wf), IsExpr)

\* workflow.env && workflow.env[envVar]: truthy only for a truthy value
envTruthy(env, name) == name \in EnvNames /\ env[name] = "truthy"
foundInJob(wf, name) ==
  \E i \in Range(jobIds(wf)) : envTruthy(jobAt(wf, i).env, name)

\* a check 7 that reports a used secret as a warning
checkExpressionSecretWarns(wf, m, r) ==
  IF m.p = "env"
    THEN IF ~envTruthy(wf.env, m.n) /\ ~foundInJob(wf, m.n)
           THEN push(r, EnvWarning(m.n)) ELSE r
  ELSE IF m.p = "vars" THEN push(r, VarsInfo(m.n))
  ELSE IF m.p = "secrets" THEN push(r, [SecretsInfo(m.n) EXCEPT !.type = "warning"])
  ELSE r
\* the callback of variableMatches.forEach
checkExpression(wf, m, r) ==
  IF m.p = "env"
    THEN IF ~envTruthy(wf.env, m.n) /\ ~foundInJob(wf, m.n)
           THEN push(r, EnvWarning(m.n)) ELSE r
  ELSE IF m.p = "vars" THEN push(r, VarsInfo(m.n))
  ELSE IF m.p = "secrets" THEN push(r, SecretsInfo(m.n))
  ELSE r

RECURSIVE expressionsFrom(_, _, _, _)
expressionsFrom(wf, ms, k, r) ==
  IF k > Len(ms) THEN r
  ELSE expressionsFrom(wf, ms, k + 1, checkExpression(wf, ms[k], r))

checkExpressions(wf, r) ==
  IF r.threw THEN r ELSE expressionsFrom(wf, variableMatches(wf), 1, r)

\* a validator that stops at the first check that reported something
checkUntilFirstReport(wf) ==
  LET r1 == checkNoJobs(wf, Started)
      r2 == IF r1.errors # <<>> THEN r1 ELSE checkCycle(wf, r1)
      r3 == IF r2.errors # <<>> THEN r2 ELSE checkDangling(wf, r2)
      r4 == IF r3.errors # <<>> THEN r3 ELSE checkRunners(wf, r3)
      r5 == IF r4.errors # <<>> THEN r4 ELSE checkTodo(wf, r4)
      r6 == IF r5.errors # <<>> THEN r5 ELSE checkSecrets(wf, r5)
  IN IF r6.errors # <<>> THEN r6 ELSE checkExpressions(wf, r6)
\* const errors = []; the seven checks in order, each on the same workflow; return errors
checkWorkflowForErrors(wf) ==
  checkExpressions(wf,
    checkSecrets(wf,
      checkTodo(wf,
        checkRunners(wf,
          checkDangling(wf,
            checkCycle(wf,
              checkNoJobs(wf, Started)))))))

\* ------------------------------------------------------------- createTreeLayout
\* renderJobsGraph: a link from each needs entry to the job that lists it, in
\* the order of the jobs and of their needs
layoutLinks(g) ==
  concatAll([i \in 1..Len(g.keys) |->
               [k \in 1..Len(g.needs[g.keys[i]]) |->
                  [source |-> g.needs[g.keys[i]][k], target |-> g.keys[i]]]])

\* a node that positionNodes never reached has no x and no y
Unplaced == [placed |-> FALSE, x |-> 0, y |-> 0]

RECURSIVE positionNodes(_, _, _, _, _, _)
RECURSIVE positionEach(_, _, _, _, _, _)

\* function positionNodes(nodeId, level, order, totalSiblings), vertical, with
\* centerX 500 (a pane 1000 wide), centerY 120, levelSpacing 200 and
\* siblingSpacing 250; pos is the x, y written to the nodes so far
positionNodes(g, links, nodeId, level, order, pos) ==
  IF ~includes(g.keys, nodeId) THEN pos
  ELSE LET children == SelectSeq(links, LAMBDA l : l.source = nodeId)
           startX == 500 - (order[2] * 250) \div 2 + 125
           here == [placed |-> TRUE, x |-> startX + order[1] * 250, y |-> 120 + level * 200]
       IN positionEach(g, links, children, 1, level + 1, [pos EXCEPT ![nodeId] = here])

\* children.forEach((childId, idx) => positionNodes(childId, level + 1, idx, children.length))
positionEach(g, links, children, k, level, pos) ==
  IF k > Len(children) THEN pos
  ELSE positionEach(g, links, children, k + 1, level,
         positionNodes(g, links, children[k].target, level, <<k - 1, Len(children)>>, pos))

\* createTreeLayout(jobs, links, options): the nodes with their positions;
\* positioning starts from rootIds[0], or from data[0] when every node is a target
createTreeLayout(g) ==
  LET links == layoutLinks(g)
      rootIds == SelectSeq(g.keys, LAMBDA id : \A k \in 1..Len(links) : links[k].target # id)
      none == [i \in 1..Len(g.keys) |-> Unplaced]
  IN IF Len(g.keys) = 0 THEN none
     ELSE positionNodes(g, links, IF Len(rootIds) > 0 THEN rootIds[1] ELSE g.keys[1],
                        0, <<0, 1>>, none)

\* ------------------------------------------------------------- input documents
\* The documents one edit away from mapping d: one more key, job, needs entry,
\* step or token, or one field of a job changed from its plain value.
withJob(d, i, job) == [d EXCEPT !.jobs.list[i] = job]

\* The edits of one job, over the ids, runner values, env values and tokens given
JobEditsOver(job, ids, runners, envVals, tokens) ==
  {[job EXCEPT !.needs.list = Append(@, id)] : id \in {x \in ids : ~job.needs.str}}
   \cup {[job EXCEPT !.needs = [str |-> TRUE, list |-> <<id>>]] :
            id \in {x \in ids : ~job.needs.str /\ job.needs.list = <<>>}}
   \cup {[job EXCEPT !.runsOn = v] :
            v \in {x \in runners : job.runsOn = "ubuntu-latest"}}
   \cup {[job EXCEPT !.env[e] = v] :
            e \in {x \in EnvNames : job.env[x] = "none"}, v \in envVals}
   \cup {[job EXCEPT !.steps = Append(@, [run |-> <<>>])]}
   \cup {[job EXCEPT !.steps[Len(job.steps)].run = Append(@, t)] :
            t \in {x \in tokens : Len(job.steps) > 0}}

DocEditsOver(d, ids, runners, envVals, tokens) ==
  {[d EXCEPT !.hasName = TRUE]}
   \cup {[d EXCEPT !.env[e] = v] :
            e \in {x \in EnvNames : d.env[x] = "none"}, v \in envVals}
   \cup {[d EXCEPT !.jobs.present = TRUE]}
   \cup {[d EXCEPT !.jobs = [present |-> TRUE, list |-> Append(d.jobs.list, body)]] :
            body \in {x \in {CleanJob, NullJob} : Len(d.jobs.list) < MaxJobs}}
   \cup UNION { {withJob(d, i, j) :
                   j \in JobEditsOver(d.jobs.list[i], ids, runners, envVals, tokens)} :
                  i \in {x \in 1..Len(d.jobs.list) : ~d.jobs.list[x].null} }

DocEdits(d) ==
  DocEditsOver(d, 0..MaxJobs, {"absent", "", "self-hosted-gpu", "my-runner", "array"},
               {"falsy", "truthy"}, Tokens)

\* The values a run starts from: no text (null), a scalar, or the empty mapping
StartWorkflows == {EmptyMap, NullWf, FalsyWf, ScalarWf}

\* ------------------------------------------------------------- parseWorkflow
\* A text is [form, doc]: '' ("empty"), a text that is one falsy or truthy
\* scalar ("falsy", "scalar"), a YAML mapping ("mapping", doc = the mapping
\* written in it) or malformed YAML ("malformed", doc = what is written in it).
EmptyText == [form |-> "empty", doc |-> EmptyMap]
FalsyText == [form |-> "falsy", doc |-> EmptyMap]
ScalarText == [form |-> "scalar", doc |-> EmptyMap]
MappingText(d) == [form |-> "mapping", doc |-> d]
MalformedText(d) == [form |-> "malformed", doc |-> d]

\* yaml.load(preprocessYaml(yamlContent)) throws a YAMLException
parseThrows(text) == text.form = "malformed"

\* what yaml.load(preprocessYaml(yamlContent)) returns when it does not throw
yamlLoad(text) ==
  CASE text.form = "empty" -> NullWf
    [] text.form = "falsy" -> FalsyWf
    [] text.form = "scalar" -> ScalarWf
    [] OTHER -> text.doc

\* ------------------------------------------------------------- Home.handleCodeChange
keepLastGood(prev) == prev
\* catch (error) { setParsedWorkflow(null) }
onParseError(prev) == NullWf

\* the value handleCodeChange passes to setParsedWorkflow
parsedFrom(prev, code) ==
  IF parseThrows(code) THEN onParseError(prev) ELSE yamlLoad(code)

\* Object.is(old, new) for two values of the workflow prop: every successful
\* parse of a mapping builds a new object
sameValue(old, new) == new.kind # "map" /\ old = new

\* ------------------------------------------------------------- WorkflowGraph
NoJob == 0
NoStep == [id |-> -1, name |-> 0, run |-> <<>>, variables |-> <<>>]

\* useState initial values; mounted = FALSE while another tab is shown
GraphUnmounted ==
  [mounted |-> FALSE, viewMode |-> "jobs", selectedJob |-> NoJob, selectedStep |-> NoStep,
   errors |-> <<>>, isEmptyWorkflow |-> FALSE]

\* !workflow is false
truthy(wf) == wf.kind \in {"map", "scalar"}

anyType(d) == TRUE
\* error.type === 'error'
isErrorType(d) == d.type = "error"

validatorThrows(wf) == checkWorkflowForErrors(wf).threw

\* a hasValidationErrors that never finds an error
hasValidationErrorsNever(wf) == FALSE

\* hasValidationErrors(): its value, and whether the call throws
hasValidationErrors(wf) ==
  /\ truthy(wf)
  /\ \E i \in 1..Len(checkWorkflowForErrors(wf).errors) :
        isErrorType(checkWorkflowForErrors(wf).errors[i])
hasValidationErrorsThrows(wf) == truthy(wf) /\ validatorThrows(wf)

\* Object.keys(workflow).length === 0
keysEmpty(wf) ==
  /\ wf.kind = "map"
  /\ ~wf.hasName /\ ~wf.jobs.present
  /\ \A e \in EnvNames : wf.env[e] = "none"

\* the validate effect sets isEmptyWorkflow
isEmpty(wf) == ~truthy(wf) \/ keysEmpty(wf) \/ Len(jobIds(wf)) = 0

\* the validate effect: setErrors / setIsEmptyWorkflow, or the validator throws
validateThrows(wf) == ~isEmpty(wf) /\ validatorThrows(wf)
validated(wf, g) ==
  IF isEmpty(wf) THEN [g EXCEPT !.errors = <<>>, !.isEmptyWorkflow = TRUE]
  ELSE [g EXCEPT !.errors = checkWorkflowForErrors(wf).errors, !.isEmptyWorkflow = FALSE]

\* one entry of analyzeStepVariables for an expression match
variableOf(wf, t) ==
  [type |-> "expression", expression |-> <<t.p, t.n>>,
   subtype |-> CASE t.p = "env" -> "environment"
                 [] t.p = "secrets" -> "secret"
                 [] t.p = "github" -> "github context"
                 [] OTHER -> "unknown",
   predictedValue |-> CASE t.p = "env" -> <<"Value of environment variable", t.n>>
                        [] t.p = "secrets" -> <<"****** (secret)">>
                        [] t.p = "github" /\ t.n = "sha" -> <<"8f142c22a0c1e5a5f35b232974cabf45d66f7f1a">>
                        [] t.p = "github" -> <<"GitHub context", t.n>>
                        [] OTHER -> <<"Unknown">>]

\* A string of a script is the sequence of its pieces; no piece at all stands
\* for undefined (a predicted value that is set always has characters)
Undefined == <<>>

\* runStr.match(/([A-Z_]+)=(.+?)>>\s*\$GITHUB_ENV/g): both forms match
IsEnvExport(t) == t.k \in {"echo", "assign"}

\* what is left of the match after the first `=`, less `>> $GITHUB_ENV`, trimmed:
\* the closing quote of the echo form stays
exportedValue(t) == IF t.k = "echo" THEN <<t.n, "\"">> ELSE <<t.n>>

\* the chain of value.replace calls of either branch
replaceExamples(value) ==
  [i \in 1..Len(value) |->
     CASE value[i] = "${GITHUB_SHA::7}" -> "8f142c2"
       [] value[i] = "${GITHUB_RUN_NUMBER}" -> "42"
       [] OTHER -> value[i]]

githubEnvOf(t) ==
  LET value == exportedValue(t)
      truncated == includes(value, "${GITHUB_SHA::7}")
      known == truncated \/ includes(value, "${GITHUB_RUN_NUMBER}")
  IN [type |-> "github_env", name |-> t.p, value |-> value,
      note |-> IF truncated THEN "Sets a variable with truncated SHA (7 characters)"
               ELSE "This variable will be available in subsequent steps",
      predictedValue |-> IF known THEN replaceExamples(value) ELSE Undefined]

\* analyzeStepVariables(step): the expressions of JSON.stringify(step), in
\* order, then the GITHUB_ENV assignments of step.run
analyzeStepVariables(wf, step) ==
  LET ms == SelectSeq(step.run, IsExpr)
      es == SelectSeq(step.run, IsEnvExport)
  IN [k \in 1..Len(ms) |-> variableOf(wf, ms[k])] \o [k \in 1..Len(es) |-> githubEnvOf(es[k])]

\* the node renderStepsGraph makes of step k (index k - 1, unnamed: `Step k`)
StepNode(wf, step, k) ==
  [id |-> k - 1, name |-> k, run |-> step.run,
   variables |-> analyzeStepVariables(wf, step)]

\* renderStepsGraph(container, jobId): the step nodes, none for a missing job
stepsOf(wf, jobId) ==
  IF jobId \notin Range(jobIds(wf)) THEN <<>>
  ELSE LET job == jobAt(wf, jobId)
       IN [k \in 1..Len(job.steps) |-> StepNode(wf, job.steps[k], k)]

\* renderJobsGraph(container): the job nodes with the needs their links come from
jobNodes(wf) ==
  [i \in 1..Len(jobIds(wf)) |->
     [id |-> i, needs |-> needsOrEmpty(jobAt(wf, i)),
      stepCount |-> Len(jobAt(wf, i).steps)]]

\* what the draw effect puts into the svg element
Blank == [mode |-> "none", title |-> NoJob, jobs |-> <<>>, steps |-> <<>>, panel |-> NoStep]
Drawing(wf, g) ==
  [mode |-> g.viewMode,
   title |-> IF g.viewMode = "steps" THEN g.selectedJob ELSE NoJob,
   jobs |-> IF g.viewMode = "jobs" THEN jobNodes(wf) ELSE <<>>,
   steps |-> IF g.viewMode = "steps" /\ g.selectedJob # NoJob
               THEN stepsOf(wf, g.selectedJob) ELSE <<>>,
   panel |-> g.selectedStep]

\* ------------------------------------------------------------- the other tabs
Tabs == {"graph", "errors", "variables", "caching", "artifacts", "suggestions"}

\* some job body is null: reading job.steps, job.env or job.needs throws
someJobNull(wf) == \E i \in Range(jobIds(wf)) : jobAt(wf, i).null

\* the component function of the tab throws while rendering
tabThrows(tab, wf) ==
  CASE tab = "errors" -> validatorThrows(wf)
    [] tab \in {"caching", "artifacts"} -> propThrows(wf) \/ someJobNull(wf)
    [] OTHER -> someJobNull(wf)

\* analyzeVariables(workflow) found an env entry or an expression
hasVariables(wf) ==
  /\ wf.kind = "map"
  /\ \/ \E e \in EnvNames : wf.env[e] # "none"
     \/ \E i \in Range(jobIds(wf)) : \E e \in EnvNames : jobAt(wf, i).env[e] # "none"
     \/ Len(variableMatches(wf)) > 0

\* which of its states the tab shows
tabState(tab, wf) ==
  CASE tab = "errors" ->
         IF ~truthy(wf) THEN "placeholder"
         ELSE IF Len(checkWorkflowForErrors(wf).errors) = 0 THEN "clean" ELSE "list"
    [] tab = "variables" -> IF hasVariables(wf) THEN "content" ELSE "empty"
    [] tab = "suggestions" ->
         IF wf.kind = "map" /\ wf.jobs.present THEN "content" ELSE "empty"
    [] OTHER -> "empty"

\* what the pane shows: the tab, the state of its component, the diagnostics it
\* lists and the content of the svg element
Screen(tab, state, errors, drawing) ==
  [tab |-> tab, state |-> state, errors |-> errors, drawing |-> drawing]
NoScreen == Screen("graph", "none", <<>>, Blank)

\* The variables of the page while another part of the model runs
UiIdle ==
  /\ workflowCode = EmptyText
  /\ parsedWorkflow = NullWf
  /\ typed = 0
  /\ activeTab = "graph"
  /\ wg = GraphUnmounted
  /\ workflowChanged = FALSE
  /\ dirty = FALSE
  /\ screen = NoScreen
  /\ crashed = FALSE

\* ------------------------------------------------------------- Suggestions
\* jobsWithoutTimeout.length > 0
someJobWithoutTimeout(wf) == \E i \in Range(jobIds(wf)) : jobAt(wf, i).timeout = "absent"

\* generateSuggestions(workflow): the categories pushed, in order.  The documents
\* have no `on`, continue-on-error or strategy key and no GITHUB_TOKEN reference.
generateSuggestions(wf) ==
  IF ~truthy(wf) \/ wf.kind # "map" \/ ~wf.jobs.present THEN [threw |-> FALSE, list |-> <<>>]
  ELSE IF someJobNull(wf) THEN [threw |-> TRUE, list |-> <<>>]
  ELSE LET when(c, x) == IF c THEN <<x>> ELSE <<>>
           withoutNeeds == {i \in Range(jobIds(wf)) : Len(jobAt(wf, i).needs.list) = 0}
           hasEnv == \/ \E e \in EnvNames : wf.env[e] # "none"
                     \/ \E i \in Range(jobIds(wf)) :
                          \E e \in EnvNames : jobAt(wf, i).env[e] # "none"
       IN [threw |-> FALSE,
           list |-> when(~wf.hasName, "name") \o <<"triggers">>
                      \o when(Cardinality(withoutNeeds) > 1, "parallel")
                      \o when(someJobWithoutTimeout(wf), "timeout")
                      \o <<"continue-on-error", "matrix">>
                      \o when(~hasEnv, "env") \o <<"token">>]

\* ------------------------------------------------------------- VariablesInfo
\* info.envVars.find(v => v.name === envVar) at job i: the workflow's entry
\* (scope NoJob), else that of the first job up to i that has the key
envVarDef(wf, i, e) ==
  IF wf.env[e] # "none" THEN <<NoJob, wf.env[e]>>
  ELSE IF \E j \in 1..i : jobAt(wf, j).env[e] # "none"
  THEN LET j == CHOOSE x \in 1..i : jobAt(wf, x).env[e] # "none"
                   /\ \A y \in 1..(x - 1) : jobAt(wf, y).env[e] = "none"
       IN <<j, jobAt(wf, j).env[e]>>
  ELSE <<>>

\* the entries pushed to stepVariables for one expression match in job i
expressionEntries(wf, i, t) ==
  LET entry(subtype, predicted) ==
        <<[type |-> "expression", subtype |-> subtype, expression |-> <<t.p, t.n>>,
           predictedValue |-> predicted]>>
  IN CASE t.p = "env" ->
            entry("env", IF t.n \in EnvNames /\ envVarDef(wf, i, t.n) # <<>>
                         THEN <<"String(value)">> \o envVarDef(wf, i, t.n)
                         ELSE <<"Unknown">>)
       [] t.p = "secrets" -> entry("secret", <<"****** (secret)">>)
       [] t.p = "vars" -> entry("repository variable", <<"Repository variable", t.n>>)
       [] t.p = "github" /\ t.n = "sha" ->
            entry("github context", <<"8f142c22a0c1e5a5f35b232974cabf45d66f7f1a">>)
       [] t.p = "github" -> entry("github context", <<"GitHub context", t.n>>)
       [] OTHER -> <<>>

\* an entry per match of
\* /echo\s+["']?([^"'\s]+)=([^"'\s]+)["']?\s*>>\s*\${?GITHUB_ENV}?/g in runCommand:
\* the echo form only, name and value without the quotes
envFileEntry(t) ==
  [type |-> "github_env", name |-> t.p, value |-> <<t.n>>,
   note |-> "Sets environment variable for all subsequent steps"]

stepVariables(wf, i, step) ==
  LET ms == SelectSeq(step.run, IsExpr)
      es == SelectSeq(step.run, LAMBDA t : t.k = "echo")
  IN concatAll([k \in 1..Len(ms) |-> expressionEntries(wf, i, ms[k])])
       \o [k \in 1..Len(es) |-> envFileEntry(es[k])]

\* a distinct-secrets list that takes every reference
pushSecretAlways(secrets, name) == Append(secrets, name)

\* if (!info.secrets.includes(secretName)) info.secrets.push(secretName)
pushSecret(secrets, name) == IF includes(secrets, name) THEN secrets ELSE Append(secrets, name)

RECURSIVE secretsFrom(_, _, _)
secretsFrom(ms, k, secrets) ==
  IF k > Len(ms) THEN secrets
  ELSE secretsFrom(ms, k + 1,
         IF ms[k].p = "secrets" THEN pushSecret(secrets, ms[k].n) ELSE secrets)

\* info.steps: the steps that have variables, in document order
stepsWithVariables(wf) ==
  LET ofJob(i) ==
        LET steps == jobAt(wf, i).steps
            all == [k \in 1..Len(steps) |->
                      [jobId |-> i, stepIndex |-> k - 1,
                       variables |-> stepVariables(wf, i, steps[k])]]
        IN SelectSeq(all, LAMBDA e : Len(e.variables) > 0)
  IN concatAll([i \in 1..Len(jobIds(wf)) |-> ofJob(i)])

\* analyzeVariables(workflow); job.env of a job with a null body throws
analyzeVariables(wf) ==
  IF someJobNull(wf) THEN [threw |-> TRUE, secrets |-> <<>>, steps |-> <<>>]
  ELSE [threw |-> FALSE, secrets |-> secretsFrom(variableMatches(wf), 1, <<>>),
        steps |-> stepsWithVariables(wf)]

\* the variables of the step nodes of every job (none for a job with a null body)
allNodeVars(wf) ==
  [i \in 1..Len(jobIds(wf)) |->
     IF jobAt(wf, i).null THEN <<>>
     ELSE [k \in 1..Len(jobAt(wf, i).steps) |->
             analyzeStepVariables(wf, jobAt(wf, i).steps[k])]]

\* The variables of the extractors while another part of the model runs
ExtractIdle ==
  /\ varDoc = EmptyMap
  /\ varEdits = 0
  /\ info = analyzeVariables(EmptyMap)
  /\ nodeVars = <<>>
  /\ suggestions = generateSuggestions(EmptyMap)

\* ------------------------------------------------------------- preprocessYaml
\* A line of the text: the length of its leading whitespace and what its
\* trimmed form is.  name `- name: x`; notify `- name: Notify Slack`;
\* tail `# - name: Notify Slack`; if `if: c`; ifSuccess `if: success()`;
\* run `run: y`; runPipe `run: |`; slackRun `run: curl -X POST -H
\* 'Content-type: application/json' --data '{\"text\":...`; slackFixed the same
\* with `{"text":`; data `--data '{\"text\":...'`; with `with:`; other `b:`;
\* blank a line of whitespace only.
Line(n, k) == [indent |-> n, kind |-> k]

startsWithName(line) == line.kind \in {"name", "notify"}

startsWithRunPipe(line) == line.kind = "runPipe"

startsWithIfOrRun(line) == line.kind \in {"if", "ifSuccess", "run", "runPipe", "slackRun", "slackFixed"}

isBlank(line) == line.kind = "blank"

\* line.includes('--data') && line.includes('\\"text\\"')
hasEscapedData(line) == line.kind \in {"slackRun", "data"}

\* the next line keeps the step block open across a blank line
keepsStepBlock(nextLine) == startsWithIfOrRun(nextLine) \/ nextLine.kind = "with"

LoopStart ==
  [inStepBlock |-> FALSE, stepIndentation |-> 0, inMultilineRun |-> FALSE,
   processedLines |-> <<>>]

pushLine(st, line) == [st EXCEPT !.processedLines = Append(@, line)]

enterStep(st, line) ==
  IF startsWithName(line)
  THEN [st EXCEPT !.inStepBlock = TRUE, !.inMultilineRun = FALSE,
                  !.stepIndentation = line.indent]
  ELSE st

exitStep(st, lines, i) ==
  IF st.inStepBlock /\ isBlank(lines[i]) /\ i < Len(lines) /\ ~keepsStepBlock(lines[i + 1])
  THEN [st EXCEPT !.inStepBlock = FALSE]
  ELSE st

\* the step property put back at stepIndentation + 2
fixedLine(st, line) == Line(st.stepIndentation + 2, line.kind)

needsFix(st, line) ==
  st.inStepBlock /\ startsWithIfOrRun(line) /\ line.indent # st.stepIndentation + 2

\* one pass of the for loop
iteration(st0, lines, i) ==
  LET line == lines[i]
      st == enterStep(st0, line)
      left == [st EXCEPT !.inMultilineRun = FALSE]
  IN IF st.inStepBlock /\ startsWithRunPipe(line)
     THEN pushLine([st EXCEPT !.inMultilineRun = TRUE], line)
     ELSE IF st.inMultilineRun /\ line.indent > st.stepIndentation /\ ~isBlank(line)
     THEN pushLine(st, line)
     ELSE IF left.inStepBlock /\ hasEscapedData(line) /\ line.indent < left.stepIndentation + 2
     THEN pushLine(left, fixedLine(left, line))
     ELSE IF needsFix(left, line)
     THEN pushLine(left, fixedLine(left, line))
     ELSE pushLine(exitStep(left, lines, i), line)

RECURSIVE linePass(_, _, _)
linePass(st, lines, i) ==
  IF i > Len(lines) THEN st ELSE linePass(iteration(st, lines, i), lines, i + 1)

\* \s+ runs over the line break, whitespace-only lines and the indentation
RECURSIVE skipBlank(_, _)
skipBlank(ls, i) == IF i <= Len(ls) /\ isBlank(ls[i]) THEN skipBlank(ls, i + 1) ELSE i

ifAfter(ls, i) == skipBlank(ls, i + 1)

runAfter(ls, i) == skipBlank(ls, ifAfter(ls, i) + 1)

\* the regular expression matches from the `- name: Notify Slack` of line i
slackMatch(ls, i) ==
  /\ ls[i].kind \in {"notify", "tail"}
  /\ ifAfter(ls, i) <= Len(ls)
  /\ ls[ifAfter(ls, i)].kind = "ifSuccess"
  /\ runAfter(ls, i) <= Len(ls)
  /\ ls[runAfter(ls, i)].kind = "slackRun"

\* the match starts at its `-`, so baseIndent is 0 and properIndent two spaces
RECURSIVE replaceSlack(_, _)
replaceSlack(ls, i) ==
  IF i > Len(ls) THEN <<>>
  ELSE IF slackMatch(ls, i)
  THEN <<ls[i], Line(2, "ifSuccess"), Line(2, "slackFixed")>>
         \o replaceSlack(ls, runAfter(ls, i) + 1)
  ELSE <<ls[i]>> \o replaceSlack(ls, i + 1)

preprocessYaml(lines) == replaceSlack(linePass(LoopStart, lines, 1).processedLines, 1)

\* The lines typed into the editor
LineAlphabet ==
  {Line(n, "if") : n \in {0, 2, 4}}
   \cup {Line(n, "name") : n \in {0, 2}}
   \cup {Line(n, k) : n \in {2, 4}, k \in {"run", "data"}}
   \cup {Line(n, "other") : n \in {0, 4}}
   \cup {Line(2, "runPipe"), Line(4, "runPipe"), Line(0, "blank"), Line(2, "with")}
   \cup {Line(0, "notify"), Line(2, "notify"), Line(0, "tail")}
   \cup {Line(n, k) : n \in {2, 4}, k \in {"ifSuccess", "slackRun"}}

\* The variables of the text pass while another part of the model runs
TextIdle ==
  /\ yamlLines = <<Line(0, "blank")>>
  /\ processed = <<Line(0, "blank")>>

\* ------------------------------------------------------------- SpecCheck
\* The variables of the validator run while another part of the model runs
CheckIdle ==
  /\ checkedWf = NullWf
  /\ edits = 0
  /\ diag = Started
  /\ vpc = "idle"

\* The variables of the cycle search while another part of the model runs
CycleIdle ==
  /\ graph = GraphOf(<<>>)
  /\ cycleOut = <<>>
  /\ cpc = "idle"
  /\ layout = <<>>

CheckInit ==
  /\ ExtractIdle
  /\ TextIdle
  /\ checkedWf \in StartWorkflows
  /\ edits = 0
  /\ diag = Started
  /\ vpc = "edit"
  /\ CycleIdle
  /\ UiIdle

\* The text under check grows by one construct
TypeEdit ==
  /\ vpc = "edit"
  /\ checkedWf.kind = "map"
  /\ edits < MaxEdits
  /\ checkedWf' \in DocEdits(checkedWf)
  /\ edits' = edits + 1
  /\ UNCHANGED <<diag, vpc, cycleVars, uiVars, textVars, extractVars>>

RunCheck ==
  /\ vpc = "edit"
  /\ diag' = checkWorkflowForErrors(checkedWf)
  /\ vpc' = "done"
  /\ UNCHANGED <<checkedWf, edits, cycleVars, uiVars, textVars, extractVars>>

CheckNext == TypeEdit \/ RunCheck

SpecCheck == CheckInit /\ [][CheckNext]_vars

\* ------------------------------------------------------------- SpecCycle
CycleInit ==
  /\ ExtractIdle
  /\ TextIdle
  /\ graph = GraphOf(<<>>)
  /\ cycleOut = <<>>
  /\ cpc = "build"
  /\ layout = <<>>
  /\ CheckIdle
  /\ UiIdle

\* one more key in the record
AddJob ==
  /\ cpc = "build"
  /\ Len(graph.keys) < MaxJobs
  /\ graph' = GraphOf(Append(graph.needs, <<>>))
  /\ UNCHANGED <<cycleOut, cpc, layout, checkVars, uiVars, textVars, extractVars>>

\* one more entry in the needs of a job: a job id, or an id that is no job
AddNeed ==
  /\ cpc = "build"
  /\ total(graph.needs) < MaxEdges
  /\ \E i \in Range(graph.keys), id \in 0..MaxJobs :
        graph' = [graph EXCEPT !.needs[i] = Append(@, id)]
  /\ UNCHANGED <<cycleOut, cpc, layout, checkVars, uiVars, textVars, extractVars>>

RunFind ==
  /\ cpc = "build"
  /\ cycleOut' = findCircularDependencies(graph)
  /\ cpc' = "done"
  /\ UNCHANGED <<graph, layout, checkVars, uiVars, textVars, extractVars>>

\* renderJobsGraph: the draw effect reaches it when validation reported no
\* error, that is no cycle and no needs entry that names no job
RunLayout ==
  /\ cpc = "done"
  /\ cycleOut = <<>>
  /\ \A i \in Range(graph.keys) : \A n \in Range(graph.needs[i]) : includes(graph.keys, n)
  /\ layout' = createTreeLayout(graph)
  /\ cpc' = "drawn"
  /\ UNCHANGED <<graph, cycleOut, checkVars, uiVars, textVars, extractVars>>

CycleNext == AddJob \/ AddNeed \/ RunFind \/ RunLayout

SpecCycle == CycleInit /\ [][CycleNext]_vars

\* ------------------------------------------------------------- SpecUI
\* The documents one edit away in the editor: the constructs the views tell apart
UiDocEdits(d) ==
  DocEditsOver(d, {Ghost, 1}, {"absent", "my-runner"}, {}, {Todo, Expr("secrets", "S")})

\* The texts the next change event can carry, with their number of constructs:
\* everything deleted, a first scalar or `{}` typed into the empty editor, one
\* more construct, a stray character that breaks the YAML, or the break repaired
Codes(text, n) ==
  {[code |-> EmptyText, n |-> 0] : x \in {y \in {1} : text # EmptyText}}
   \cup {[code |-> c, n |-> 0] :
           c \in {y \in {FalsyText, ScalarText, MappingText(EmptyMap)} : text = EmptyText}}
   \cup {[code |-> MappingText(d), n |-> n + 1] :
           d \in {y \in UiDocEdits(text.doc) : text.form = "mapping" /\ n < MaxTyped}}
   \cup {[code |-> MalformedText(text.doc), n |-> n] : x \in {y \in {1} : text.form = "mapping"}}
   \cup {[code |-> MappingText(text.doc), n |-> n] : x \in {y \in {1} : text.form = "malformed"}}

\* the page is shown and no render is pending: the next event is handled
Ready == ~dirty /\ ~crashed

UiInit ==
  /\ ExtractIdle
  /\ TextIdle
  /\ workflowCode = EmptyText
  /\ parsedWorkflow = NullWf
  /\ typed = 0
  /\ activeTab = "graph"
  /\ wg = GraphUnmounted
  /\ workflowChanged = FALSE
  /\ dirty = TRUE
  /\ screen = NoScreen
  /\ crashed = FALSE
  /\ CycleIdle
  /\ CheckIdle

\* Home.handleCodeChange(code)
HandleCodeChange ==
  /\ Ready
  /\ \E c \in Codes(workflowCode, typed) :
        /\ workflowCode' = c.code
        /\ typed' = c.n
        /\ parsedWorkflow' = parsedFrom(parsedWorkflow, c.code)
  /\ workflowChanged' = (workflowChanged \/ ~sameValue(parsedWorkflow, parsedWorkflow'))
  /\ dirty' = TRUE
  /\ UNCHANGED <<activeTab, wg, screen, crashed, cycleVars, checkVars, textVars, extractVars>>

\* VisualizationTabs: onClick={() => setActiveTab(tab.id)}
SelectTab ==
  /\ Ready
  /\ \E t \in Tabs \ {activeTab} : activeTab' = t
  /\ dirty' = TRUE
  /\ UNCHANGED <<workflowCode, parsedWorkflow, typed, wg, workflowChanged, screen, crashed,
                 cycleVars, checkVars, textVars, extractVars>>

\* a drawn job node is clicked: setSelectedJob(d.id); setViewMode('steps')
ClickJob ==
  /\ Ready
  /\ screen.state = "graph"
  /\ \E k \in 1..Len(screen.drawing.jobs) :
        wg' = [wg EXCEPT !.selectedJob = screen.drawing.jobs[k].id, !.viewMode = "steps"]
  /\ dirty' = TRUE
  /\ UNCHANGED <<workflowCode, parsedWorkflow, typed, activeTab, workflowChanged, screen,
                 crashed, cycleVars, checkVars, textVars, extractVars>>

\* a drawn step node is clicked: setSelectedStep(d)
ClickStep ==
  /\ Ready
  /\ screen.state = "graph"
  /\ \E k \in 1..Len(screen.drawing.steps) :
        wg' = [wg EXCEPT !.selectedStep = screen.drawing.steps[k]]
  /\ dirty' = TRUE
  /\ UNCHANGED <<workflowCode, parsedWorkflow, typed, activeTab, workflowChanged, screen,
                 crashed, cycleVars, checkVars, textVars, extractVars>>

\* the Back button of the steps view: setViewMode('jobs')
ClickBack ==
  /\ Ready
  /\ screen.state = "graph"
  /\ screen.drawing.mode = "steps"
  /\ wg' = [wg EXCEPT !.viewMode = "jobs"]
  /\ dirty' = TRUE
  /\ UNCHANGED <<workflowCode, parsedWorkflow, typed, activeTab, workflowChanged, screen,
                 crashed, cycleVars, checkVars, textVars, extractVars>>

\* the close button of the details panel: setSelectedStep(null)
ClosePanel ==
  /\ Ready
  /\ screen.state = "graph"
  /\ screen.drawing.panel # NoStep
  /\ wg' = [wg EXCEPT !.selectedStep = NoStep]
  /\ dirty' = TRUE
  /\ UNCHANGED <<workflowCode, parsedWorkflow, typed, activeTab, workflowChanged, screen,
                 crashed, cycleVars, checkVars, textVars, extractVars>>

\* an exception in a render or an effect: no error boundary, the tree unmounts
Crash ==
  /\ crashed' = TRUE
  /\ screen' = Screen(activeTab, "crash", <<>>, Blank)
  /\ wg' = GraphUnmounted
  /\ workflowChanged' = FALSE
  /\ dirty' = FALSE

\* React renders the graph tab: WorkflowGraph's body, then its two effects
RenderGraph ==
  /\ dirty /\ ~crashed
  /\ activeTab = "graph"
  /\ LET wf == parsedWorkflow
         g0 == IF wg.mounted THEN wg ELSE [GraphUnmounted EXCEPT !.mounted = TRUE]
         runValidate == ~wg.mounted \/ workflowChanged
         branch == IF g0.isEmptyWorkflow THEN "empty"
                   ELSE IF hasValidationErrors(wf) THEN "cannot" ELSE "graph"
         renderThrows == ~g0.isEmptyWorkflow /\ hasValidationErrorsThrows(wf)
         effectThrows == runValidate /\ validateThrows(wf)
         kept == IF wg.mounted /\ screen.state = "graph" THEN screen.drawing ELSE Blank
         drawing == IF branch # "graph" THEN Blank
                    ELSE IF truthy(wf) THEN Drawing(wf, g0) ELSE kept
     IN IF renderThrows \/ effectThrows THEN Crash
        ELSE /\ wg' = (IF runValidate THEN validated(wf, g0) ELSE g0)
             /\ screen' = Screen("graph", branch,
                                 IF branch = "cannot" THEN SelectSeq(g0.errors, isErrorType)
                                 ELSE <<>>,
                                 drawing)
             /\ dirty' = runValidate
             /\ workflowChanged' = FALSE
             /\ crashed' = FALSE
  /\ UNCHANGED <<workflowCode, parsedWorkflow, typed, activeTab, cycleVars, checkVars, textVars, extractVars>>

\* a render of the other tabs whose analyzer fills in a default workflow name
RenderTabWriting ==
  /\ dirty /\ ~crashed
  /\ activeTab # "graph"
  /\ parsedWorkflow' = (IF parsedWorkflow.kind = "map"
                          THEN [parsedWorkflow EXCEPT !.hasName = TRUE] ELSE parsedWorkflow)
  /\ IF tabThrows(activeTab, parsedWorkflow) THEN Crash
     ELSE /\ screen' = Screen(activeTab, tabState(activeTab, parsedWorkflow),
                              IF activeTab = "errors"
                                THEN checkWorkflowForErrors(parsedWorkflow).errors ELSE <<>>,
                              Blank)
          /\ wg' = GraphUnmounted
          /\ dirty' = FALSE
          /\ workflowChanged' = FALSE
          /\ crashed' = FALSE
  /\ UNCHANGED <<workflowCode, typed, activeTab, cycleVars, checkVars, textVars, extractVars>>

\* React renders one of the other tabs; WorkflowGraph is unmounted
RenderTab ==
  /\ dirty /\ ~crashed
  /\ activeTab # "graph"
  /\ IF tabThrows(activeTab, parsedWorkflow) THEN Crash
     ELSE /\ screen' = Screen(activeTab, tabState(activeTab, parsedWorkflow),
                              IF activeTab = "errors"
                                THEN checkWorkflowForErrors(parsedWorkflow).errors ELSE <<>>,
                              Blank)
          /\ wg' = GraphUnmounted
          /\ dirty' = FALSE
          /\ workflowChanged' = FALSE
          /\ crashed' = FALSE
  /\ UNCHANGED <<workflowCode, parsedWorkflow, typed, activeTab, cycleVars, checkVars, textVars, extractVars>>

UiNext ==
  \/ HandleCodeChange
  \/ SelectTab
  \/ ClickJob
  \/ ClickStep
  \/ ClickBack
  \/ ClosePanel
  \/ RenderGraph
  \/ RenderTab

SpecUI == UiInit /\ [][UiNext]_vars

\* ------------------------------------------------------------- SpecText
\* parseWorkflow is called with every text the editor holds; the text grows
\* by a line at a time
TextInit ==
  /\ ExtractIdle
  /\ yamlLines \in {<<l>> : l \in LineAlphabet}
  /\ processed = preprocessYaml(yamlLines)
  /\ CycleIdle
  /\ CheckIdle
  /\ UiIdle

TypeLine ==
  /\ Len(yamlLines) < MaxLines
  /\ \E l \in LineAlphabet :
       /\ yamlLines' = Append(yamlLines, l)
       /\ processed' = preprocessYaml(yamlLines')
  /\ UNCHANGED <<cycleVars, checkVars, uiVars, extractVars>>

TextNext == TypeLine

SpecText == TextInit /\ [][TextNext]_vars

\* ------------------------------------------------------------- SpecExtract
\* The tokens of the scripts under extraction
ExtractTokens ==
  {Word, Expr("secrets", "S"), Expr("secrets", "T"), Expr("env", "X"),
   Echo("BUILD_ID", "${GITHUB_RUN_NUMBER}"), Echo("BUILD_ID", "1.0"),
   Assign("TAG", "${GITHUB_SHA::7}")}

\* the documents in which one more job has a timeout_minutes key
TimeoutEdits(d) ==
  {withJob(d, i, [d.jobs.list[i] EXCEPT !.timeout = "set"]) :
     i \in {x \in 1..Len(d.jobs.list) :
              ~d.jobs.list[x].null /\ d.jobs.list[x].timeout = "absent"}}

ExtractInit ==
  /\ varDoc = EmptyMap
  /\ varEdits = 0
  /\ info = analyzeVariables(EmptyMap)
  /\ nodeVars = <<>>
  /\ suggestions = generateSuggestions(EmptyMap)
  /\ CycleIdle
  /\ CheckIdle
  /\ UiIdle
  /\ TextIdle

\* the text gains a construct; the Variables tab, the graph's step nodes and
\* the Suggestions tab are computed from the document it parses to
EditAndExtract ==
  /\ varEdits < MaxVarEdits
  /\ \E d \in DocEditsOver(varDoc, {}, {}, {"truthy"}, ExtractTokens) \cup TimeoutEdits(varDoc) :
       /\ varDoc' = d
       /\ info' = analyzeVariables(d)
       /\ nodeVars' = allNodeVars(d)
       /\ suggestions' = generateSuggestions(d)
  /\ varEdits' = varEdits + 1
  /\ UNCHANGED <<cycleVars, checkVars, uiVars, textVars>>

ExtractNext == EditAndExtract

SpecExtract == ExtractInit /\ [][ExtractNext]_vars

\* ------------------------------------------------------------- claims: cycle search
Nodes(g) == Range(g.keys)
\* y is listed in the needs of job x
Edge(g, x, y) == x \in Nodes(g) /\ includes(g.needs[x], y)
Succ(g, S) == {y \in Nodes(g) : \E x \in S : Edge(g, x, y)}
RECURSIVE Closure(_, _)
Closure(g, S) == LET T == S \cup Succ(g, S) IN IF T = S THEN S ELSE Closure(g, T)
\* some job reaches itself along needs edges through jobs
HasCycle(g) == \E k \in Nodes(g) : k \in Closure(g, Succ(g, {k}))

\* C1: whenever the job graph contains a cycle among its jobs, the returned
\* sequence is non-empty, its first and last elements are equal, and every
\* consecutive pair (x, y) is a real edge: y is listed in the needs of x.
C1_CycleSound ==
  (cpc = "done" /\ HasCycle(graph)) =>
     /\ Len(cycleOut) > 0
     /\ cycleOut[1] = cycleOut[Len(cycleOut)]
     /\ \A i \in 1..(Len(cycleOut) - 1) : Edge(graph, cycleOut[i], cycleOut[i + 1])

\* a cycle through three jobs was searched, in a graph that also has a dangling entry
C1_Witness ==
  /\ cpc = "done"
  /\ HasCycle(graph)
  /\ Len(cycleOut) = 4
  /\ \E k \in Nodes(graph) : includes(graph.needs[k], Ghost)

NeedsOf(g, n) == IF n \in Nodes(g) THEN g.needs[n] ELSE <<>>

StackNodes(stack) == [i \in 1..Len(stack) |-> stack[i].node]

RECURSIVE FirstClosedFrom(_, _, _, _)
FirstClosedFrom(g, stack, seen, r) ==
  IF Len(stack) = 0
  THEN IF r > Len(g.keys) THEN <<>>
       ELSE IF g.keys[r] \in seen THEN FirstClosedFrom(g, stack, seen, r + 1)
       ELSE FirstClosedFrom(g, <<[node |-> g.keys[r], next |-> 1]>>,
                            seen \cup {g.keys[r]}, r + 1)
  ELSE LET top == stack[Len(stack)]
           ns == NeedsOf(g, top.node)
           below == SubSeq(stack, 1, Len(stack) - 1)
           moved == Append(below, [top EXCEPT !.next = @ + 1])
       IN IF top.next > Len(ns) THEN FirstClosedFrom(g, below, seen, r)
          ELSE LET n == ns[top.next]
                   path == StackNodes(stack)
               IN IF \E i \in 1..Len(path) : path[i] = n
                  THEN LET first == CHOOSE i \in 1..Len(path) :
                                      path[i] = n /\ \A j \in 1..(i - 1) : path[j] # n
                       IN Append(SubSeq(path, first, Len(path)), n)
                  ELSE IF n \in seen THEN FirstClosedFrom(g, moved, seen, r)
                  ELSE FirstClosedFrom(g, Append(moved, [node |-> n, next |-> 1]),
                                       seen \cup {n}, r)

\* the first cycle closed when roots are tried in insertion order and needs in
\* listed order; empty when the walk closes none
FirstClosed(g) == FirstClosedFrom(g, <<>>, {}, 1)

\* the jobs that lie on some cycle
OnCycle(g) == {k \in Nodes(g) : k \in Closure(g, Succ(g, {k}))}

\* C19: the sequence returned is the first cycle closed by the depth-first
\* walk that tries roots in insertion order and needs in listed order: the
\* path from the revisited node's first occurrence through the revisiting
\* node, closed by the revisited node, and nothing after it.
C19_FirstCycleOnly == cpc = "done" => cycleOut = FirstClosed(graph)

\* a graph with a second cycle that the result does not touch was searched
C19_Witness ==
  /\ cpc = "done"
  /\ Len(cycleOut) > 2
  /\ \E k \in OnCycle(graph) : ~includes(cycleOut, k)

\* C28: for every job graph that reaches rendering, createTreeLayout gives an
\* x and a y to every node of its input, also when several jobs have no
\* dependencies.
C28_EveryNodePlaced ==
  cpc = "drawn" => \A n \in Nodes(graph) : layout[n].placed

\* C24: the search of findCircularDependencies completes on every graph, with
\* cycles, self-loops and dangling entries: it follows each needs entry at most
\* once, so the calls dfs(neighbor) number at most the needs entries.
C24_SearchBounded ==
  cpc = "done" =>
     /\ searched(graph).calls <= total(graph.needs)
     /\ searched(graph).path = <<>> \/ Len(cycleOut) > 0

\* a graph with a self-loop and a dangling entry was searched to the end
C24_Witness ==
  /\ cpc = "done"
  /\ \E k \in Nodes(graph) : Edge(graph, k, k)
  /\ \E k \in Nodes(graph) : includes(graph.needs[k], Ghost)
  /\ searched(graph).calls = total(graph.needs)

\* C29: a non-empty result is a simple cycle: its last element equals its
\* first, the elements before the last are pairwise distinct, and its length
\* lies between 2 and the number of jobs plus one.
C29_SimpleCycle ==
  (cpc = "done" /\ Len(cycleOut) > 0) =>
     /\ Len(cycleOut) >= 2
     /\ Len(cycleOut) <= Len(graph.keys) + 1
     /\ cycleOut[Len(cycleOut)] = cycleOut[1]
     /\ \A a, b \in 1..(Len(cycleOut) - 1) : cycleOut[a] = cycleOut[b] => a = b

\* the cycle found does not pass through the root the search started from
C29_Witness ==
  /\ cpc = "done"
  /\ Len(cycleOut) = 3
  /\ ~includes(cycleOut, graph.keys[1])
  /\ Edge(graph, graph.keys[1], cycleOut[1])

\* ------------------------------------------------------------- claims: validator
Returned == vpc = "done" /\ ~diag.threw
\* a document typed as the data model has it: every job a mapping, every needs a list
WellTyped(w) ==
  /\ w.kind = "map"
  /\ \A i \in 1..Len(w.jobs.list) : ~w.jobs.list[i].null /\ ~w.jobs.list[i].needs.str
Checked == vpc = "done" /\ WellTyped(checkedWf)
Ids(w) == Range(jobIds(w))
\* the needs entries of job i as a list (none when needs is not a list)
ListedNeeds(w, i) == IF jobAt(w, i).needs.str THEN <<>> ELSE jobAt(w, i).needs.list
JobGraph(w) == [keys |-> jobIds(w), needs |-> [i \in Ids(w) |-> ListedNeeds(w, i)]]
Count(seq, d) == Cardinality({i \in 1..Len(seq) : seq[i] = d})
CountText(seq, text) == Cardinality({i \in 1..Len(seq) : seq[i].text = text})
Text(w) == UNION {UNION {Range(jobAt(w, i).steps[k].run) : k \in 1..Len(jobAt(w, i).steps)}
                    : i \in Ids(w)}

\* C3: for every document that decodes to a mapping, checkWorkflowForErrors
\* returns a diagnostic sequence and never throws, a string-valued needs and a
\* null job body included.
C3_NeverThrows ==
  (vpc = "done" /\ checkedWf.kind = "map") => ~diag.threw

\* The check (1..7) a diagnostic comes from
Rank(d) ==
  CASE d.text = NoJobsError.text -> 1
    [] d.text = CycleError(<<>>).text -> 2
    [] d.text = DanglingError(0, 0).text -> 3
    [] d.text \in {RunnerWarning(0, "").text, NoRunnerError(0).text} -> 4
    [] d.text = TodoWarning.text -> 5
    [] d.text = SecretError.text -> 6
    [] OTHER -> 7

\* What makes each check report, stated on the document alone
Reports(w, k) ==
  CASE k = 1 -> Ids(w) = {}
    [] k = 2 -> HasCycle(JobGraph(w))
    [] k = 3 -> \E i \in Ids(w) : \E n \in Range(ListedNeeds(w, i)) : n \notin Ids(w)
    [] k = 4 -> \E i \in Ids(w) : jobAt(w, i).runsOn \in {"absent", "", "my-runner"}
    [] k = 5 -> Todo \in Text(w)
    [] k = 6 -> Akia \in Text(w) \/ B64 \in Text(w)
    [] OTHER -> \/ Expr("vars", "V") \in Text(w)
                \/ Expr("secrets", "S") \in Text(w)
                \/ \E e \in EnvNames :
                     /\ Expr("env", e) \in Text(w)
                     /\ w.env[e] # "truthy"
                     /\ \A i \in Ids(w) : jobAt(w, i).env[e] # "truthy"

\* C8: the returned sequence is in the order of the checks 1..7, never reordered
\* by severity, and each check reports exactly when its own condition holds on
\* the document, whatever the earlier checks reported.
C8_CheckOrder ==
  Returned =>
     /\ \A i \in 1..(Len(diag.errors) - 1) :
          Rank(diag.errors[i]) <= Rank(diag.errors[i + 1])
     /\ \A k \in 1..7 :
          Reports(checkedWf, k) <=> \E i \in 1..Len(diag.errors) : Rank(diag.errors[i]) = k

\* a warning of check 5 was returned after errors of two earlier checks
C8_Witness ==
  /\ Returned
  /\ \E i, j, k \in 1..Len(diag.errors) :
        /\ i < j /\ j < k
        /\ Rank(diag.errors[i]) = 2
        /\ Rank(diag.errors[j]) = 4 /\ diag.errors[j].type = "error"
        /\ Rank(diag.errors[k]) = 5 /\ diag.errors[k].type = "warning"

\* the chain of a cycle message: job ids at the odd places, arrows between them
Walk(chain) == [i \in 1..((Len(chain) + 1) \div 2) |-> chain[2 * i - 1]]
IsJoined(chain) == \A i \in 1..Len(chain) : (i % 2 = 0) <=> (chain[i] = Arrow)

\* C9: for a document whose jobs are mappings with list-valued needs, exactly
\* one cycle error is returned when the job graph has a cycle, however many,
\* and none when it is acyclic; its message lists the job ids of one cycle in
\* order, joined by the arrow.
C9_OneCycleError ==
  Checked =>
     /\ ~diag.threw
     /\ CountText(diag.errors, CycleError(<<>>).text)
          = (IF HasCycle(JobGraph(checkedWf)) THEN 1 ELSE 0)
     /\ \A i \in 1..Len(diag.errors) :
          diag.errors[i].text = CycleError(<<>>).text =>
            LET chain == diag.errors[i].chain
                walk == Walk(chain)
            IN /\ diag.errors[i].type = "error"
               /\ Len(chain) >= 3 /\ Len(chain) % 2 = 1 /\ IsJoined(chain)
               /\ walk[1] = walk[Len(walk)]
               /\ \A k \in 1..(Len(walk) - 1) :
                    Edge(JobGraph(checkedWf), walk[k], walk[k + 1])

\* a document with two cycles (two jobs mutually dependent, the first also
\* depending on itself) got its single cycle error, naming both jobs
C9_Witness ==
  /\ Checked
  /\ Len(jobIds(checkedWf)) = 2
  /\ ListedNeeds(checkedWf, 1) = <<2, 1>>
  /\ ListedNeeds(checkedWf, 2) = <<1>>
  /\ CountText(diag.errors, CycleError(<<>>).text) = 1
  /\ \E i \in 1..Len(diag.errors) :
        diag.errors[i].chain = <<1, Arrow, 2, Arrow, 1>>

Settled == ~dirty
GraphSettled == ~dirty /\ ~crashed /\ activeTab = "graph"
\* the validator returns diagnostics for the held document
HeldChecked ==
  parsedWorkflow.kind # "null" /\ ~checkWorkflowForErrors(parsedWorkflow).threw
HeldDiagnostics == checkWorkflowForErrors(parsedWorkflow).errors
HeldErrors == {i \in 1..Len(HeldDiagnostics) : HeldDiagnostics[i].type = "error"}
GraphDrawn == screen.state = "graph" /\ screen.drawing.mode \in {"jobs", "steps"}

\* C4: whenever the held document is null, the selected tab, whichever it is,
\* shows its empty or placeholder state and no render has thrown.
C4_NullPlaceholder ==
  (Settled /\ parsedWorkflow.kind = "null") =>
     /\ ~crashed
     /\ screen.tab = activeTab
     /\ screen.state \in {"empty", "placeholder"}

\* C5 as stated: the graph is drawn only when the held document has no
\* error-kind diagnostic, any error-kind diagnostic gives the 'cannot visualize'
\* state, and a document with warnings and infos only is drawn.
C5_AnyErrorCannot ==
  (GraphSettled /\ HeldChecked) =>
     /\ GraphDrawn => HeldErrors = {}
     /\ HeldErrors # {} => screen.state = "cannot"
     /\ HeldErrors = {} => GraphDrawn

\* C5: the graph is drawn exactly for the held documents without an error-kind
\* diagnostic; a document with at least one job and an error-kind diagnostic
\* gives the 'cannot visualize' state, and a document without jobs gives the
\* 'no workflow' empty state although its diagnostics hold the no-jobs error.
C5_ErrorsBlockGraph ==
  (GraphSettled /\ HeldChecked) =>
     /\ GraphDrawn <=> HeldErrors = {}
     /\ (HeldErrors # {} /\ Len(jobIds(parsedWorkflow)) > 0) <=> screen.state = "cannot"
     /\ Len(jobIds(parsedWorkflow)) = 0 <=> screen.state = "empty"

\* a document whose only diagnostic is a warning is on screen as a drawn job graph
C5_Witness ==
  /\ GraphSettled /\ HeldChecked
  /\ Len(HeldDiagnostics) > 0
  /\ \A i \in 1..Len(HeldDiagnostics) : HeldDiagnostics[i].type = "warning"
  /\ GraphDrawn
  /\ Len(screen.drawing.jobs) > 0

\* C6: the held document is what parseWorkflow returns for the text in the
\* editor, and null when parseWorkflow throws for it: nothing of an earlier
\* text is kept.
C6_LastEditWins ==
  parsedWorkflow = (IF parseThrows(workflowCode) THEN NullWf ELSE yamlLoad(workflowCode))

\* a text with a job and a step was broken by the last edit: the document that
\* was held for it is gone
C6_Witness ==
  /\ workflowCode.form = "malformed"
  /\ Len(workflowCode.doc.jobs.list) > 0
  /\ Len(workflowCode.doc.jobs.list[1].steps) > 0
  /\ parsedWorkflow = NullWf
  /\ dirty

\* C7: whatever the graph view shows is computed from the held document: the
\* errors it lists are the error diagnostics of that document, the job whose
\* steps it shows is a job of that document, and the step in the details panel
\* is a step of that document with the variables found in it.
C7_ShownFromCurrent ==
  GraphSettled =>
     /\ screen.state = "cannot" =>
          /\ HeldChecked
          /\ screen.errors = SelectSeq(HeldDiagnostics, LAMBDA d : d.type = "error")
     /\ (screen.state = "graph" /\ screen.drawing.mode = "steps") =>
          screen.drawing.title \in Range(jobIds(parsedWorkflow))
     /\ (screen.state = "graph" /\ screen.drawing.panel # NoStep) =>
          \E i \in Range(jobIds(parsedWorkflow)) :
             \E k \in 1..Len(jobAt(parsedWorkflow, i).steps) :
                screen.drawing.panel
                  = StepNode(parsedWorkflow, jobAt(parsedWorkflow, i).steps[k], k)

\* the job graph renderJobsGraph drew: the nodes with the needs its links come from
DrawnGraph ==
  [keys |-> [i \in 1..Len(screen.drawing.jobs) |-> screen.drawing.jobs[i].id],
   needs |-> [i \in 1..Len(screen.drawing.jobs) |-> screen.drawing.jobs[i].needs]]
JobsDrawn == GraphSettled /\ screen.state = "graph" /\ screen.drawing.mode = "jobs"

\* C26: whenever the job graph is laid out and drawn, it is the graph of the
\* held document, the source and the target of every link are ids of jobs of
\* that document, and the graph has no cycle.
C26_DrawnGraphSound ==
  JobsDrawn =>
     /\ screen.drawing.jobs = jobNodes(parsedWorkflow)
     /\ \A k \in Nodes(DrawnGraph) : \A need \in Range(DrawnGraph.needs[k]) :
           /\ need \in Range(jobIds(parsedWorkflow))
           /\ k \in Range(jobIds(parsedWorkflow))
     /\ ~HasCycle(DrawnGraph)

\* a graph of two jobs with a link between them is drawn
C26_Witness ==
  /\ JobsDrawn
  /\ Len(screen.drawing.jobs) = 2
  /\ screen.drawing.jobs[2].needs = <<1>>

RunsOnString(job) == job.runsOn \notin {"absent", "array"}
\* the string is in the allow-list of the data model or starts with self-hosted
AllowedRunner(runner) ==
  runner \in {"ubuntu-latest", "ubuntu-22.04", "ubuntu-20.04", "ubuntu-18.04",
              "windows-latest", "windows-2022", "windows-2019",
              "macos-latest", "macos-12", "macos-11", "self-hosted", "self-hosted-gpu"}
RunnerErrors(i) == Count(diag.errors, NoRunnerError(i))
RunnerWarnings(i) ==
  Cardinality({k \in 1..Len(diag.errors) :
                 diag.errors[k].job = i /\ diag.errors[k].text = RunnerWarning(0, "").text})

\* C11: for every job, check 4 returns exactly one error naming the job when
\* runs-on is absent, exactly one warning when runs-on is a string that is
\* neither in the allow-list nor starts with self-hosted, and nothing when
\* runs-on is an allowed string or an array.
C11_RunnerCheck ==
  Checked =>
     /\ ~diag.threw
     /\ \A i \in Ids(checkedWf) :
          LET job == jobAt(checkedWf, i)
          IN /\ job.runsOn = "absent" => (RunnerErrors(i) = 1 /\ RunnerWarnings(i) = 0)
             /\ (RunsOnString(job) /\ ~AllowedRunner(job.runsOn)) =>
                  (RunnerErrors(i) = 0 /\ RunnerWarnings(i) = 1)
             /\ (job.runsOn = "array" \/ (RunsOnString(job) /\ AllowedRunner(job.runsOn))) =>
                  (RunnerErrors(i) = 0 /\ RunnerWarnings(i) = 0)

\* the places <<job, step, position>> of the document's text where token t stands
Places(w, t) ==
  {pl \in UNION {UNION {{<<i, k, j>> : j \in 1..Len(jobAt(w, i).steps[k].run)} :
                          k \in 1..Len(jobAt(w, i).steps)} : i \in Ids(w)} :
     jobAt(w, pl[1]).steps[pl[2]].run[pl[3]] = t}
\* the key e is present in the workflow-level env or in the env of some job
EnvDefined(w, e) ==
  w.env[e] # "none" \/ \E i \in Ids(w) : jobAt(w, i).env[e] # "none"

\* C12: for every ${{ env.X }} expression of the document, check 7 returns a
\* warning for X exactly when the key X is present neither in the workflow-level
\* env nor in the env of any job, whatever value a present key is bound to.
C12_EnvWarning ==
  Checked =>
     /\ ~diag.threw
     /\ \A e \in EnvNames :
          CountText(SelectSeq(diag.errors, LAMBDA d : d.name = e), EnvWarning(e).text)
            = (IF EnvDefined(checkedWf, e) THEN 0
               ELSE Cardinality(Places(checkedWf, Expr("env", e))))

\* C13: every occurrence of a ${{ secrets.X }} or ${{ vars.X }} expression gets
\* exactly one diagnostic of check 7, of kind info and naming X, and an
\* expression of any other form than env., vars. and secrets. gets none.
C13_InfoPerOccurrence ==
  Checked =>
     /\ ~diag.threw
     /\ \A k \in 1..Len(diag.errors) :
          Rank(diag.errors[k]) = 7 =>
            \/ diag.errors[k].text = EnvWarning("").text
            \/ /\ diag.errors[k].type = "info"
               /\ \/ diag.errors[k].text = SecretsInfo("").text /\ diag.errors[k].name = "S"
                  \/ diag.errors[k].text = VarsInfo("").text /\ diag.errors[k].name = "V"
     /\ CountText(diag.errors, SecretsInfo("").text)
          = Cardinality(Places(checkedWf, Expr("secrets", "S")))
     /\ CountText(diag.errors, VarsInfo("").text)
          = Cardinality(Places(checkedWf, Expr("vars", "V")))

\* a step that uses the same secret twice and the commit sha once got two infos
\* and nothing else
C13_Witness ==
  /\ Checked
  /\ Cardinality(Places(checkedWf, Expr("secrets", "S"))) = 2
  /\ Cardinality(Places(checkedWf, Expr("github", "sha"))) = 1
  /\ Len(diag.errors) = 2
  /\ \A k \in 1..2 : diag.errors[k].type = "info"

\* ------------------------------------------------------------- claims: parseWorkflow
\* C14: parseWorkflow throws for every text that is not well-formed YAML or whose
\* top-level value is a scalar or a sequence, and what it returns is a mapping.
\* (The empty text is the subject of C15.)
C14_ParseRejectsNonMapping ==
  workflowCode # EmptyText =>
     /\ workflowCode.form # "mapping" => parseThrows(workflowCode)
     /\ ~parseThrows(workflowCode) =>
          (yamlLoad(workflowCode).kind = "map" /\ parsedWorkflow.kind = "map")

\* the text in the editor is empty input: '' or `{}`
EmptyInput == workflowCode \in {EmptyText, MappingText(EmptyMap)}

\* C15: for the empty string and for `{}` parseWorkflow does not throw, no
\* render throws, the graph view shows the 'no workflow' empty state and not
\* the 'cannot visualize' error state, and the list of diagnostics of the
\* errors tab shows none for it.
C15_EmptyInput ==
  (Settled /\ EmptyInput) =>
     /\ ~parseThrows(workflowCode)
     /\ ~crashed
     /\ screen.tab = "graph" => screen.state = "empty"
     /\ screen.tab = "errors" => (screen.state \in {"placeholder", "clean"} /\ screen.errors = <<>>)

\* ------------------------------------------------------------- claims: preprocessYaml
\* no line of the text has a trimmed form that starts with `- name:`
NoStepBlock(ls) == \A i \in 1..Len(ls) : ~startsWithName(ls[i])

\* C16: a text in which no line's trimmed form starts with `- name:` comes
\* back from preprocessYaml unchanged, line for line and character for character.
C16_NoStepRoundTrip == NoStepBlock(yamlLines) => processed = yamlLines

\* line j lies inside the YAML node that line s opens: every line after s up to
\* j is blank or indented deeper than s
InScope(ls, s, j) ==
  s < j /\ \A m \in (s + 1)..j : isBlank(ls[m]) \/ ls[m].indent > ls[s].indent

\* line j is a line of the script of a `run: |` header
InBody(ls, j) == \E r \in 1..(j - 1) : ls[r].kind = "runPipe" /\ InScope(ls, r, j)

\* line j is an `if:`/`run:` property of the step whose `- name:` line is s
IsStepProperty(ls, s, j) ==
  /\ startsWithName(ls[s])
  /\ InScope(ls, s, j)
  /\ startsWithIfOrRun(ls[j])
  /\ ~InBody(ls, j)
  /\ \A t \in (s + 1)..(j - 1) : ~startsWithName(ls[t])

WellIndented(ls) ==
  \A s \in 1..Len(ls), j \in 1..Len(ls) :
     IsStepProperty(ls, s, j) => ls[j].indent = ls[s].indent + 2

\* no line carries a piece of the Slack notification pattern
NoSlack(ls) ==
  \A i \in 1..Len(ls) :
     ls[i].kind \notin {"notify", "tail", "ifSuccess", "slackRun", "slackFixed", "data"}

\* C20: a text outside the targeted patterns (every if:/run: property of every
\* step already at stepIndentation + 2, no Slack notification pattern) comes
\* back unchanged; a job-level `if:` right after a step block keeps its place.
C20_FrameOutsidePatterns ==
  (WellIndented(yamlLines) /\ NoSlack(yamlLines)) => processed = yamlLines

\* the result has a line for every line of the text, in the same order
LineForLine == Len(processed) = Len(yamlLines)

\* C21: in the output every if:/run: property line of a step, a `run: |`
\* header included, stands at the indentation of the step's `- name:` line
\* plus two.
C21_PropertiesAligned ==
  LineForLine =>
    \A s \in 1..Len(yamlLines), j \in 1..Len(yamlLines) :
       IsStepProperty(yamlLines, s, j) =>
          (startsWithIfOrRun(processed[j]) /\ processed[j].indent = yamlLines[s].indent + 2)

\* line j is a line of the script whose header is line r of the step of line
\* s: every line from the header to j is blank or indented deeper than the step
IsScriptLine(ls, s, r, j) ==
  /\ startsWithName(ls[s])
  /\ startsWithRunPipe(ls[r])
  /\ InScope(ls, s, r)
  /\ \A t \in (s + 1)..r : ~startsWithName(ls[t])
  /\ r < j
  /\ \A m \in (r + 1)..j : isBlank(ls[m]) \/ ls[m].indent > ls[s].indent

\* C30: no line of the body of a step's `run: |` script is modified, blank
\* lines inside the script and script lines that start with if:/run: or hold
\* --data included.
C30_ScriptBodyKept ==
  LineForLine =>
    \A s \in 1..Len(yamlLines), r \in 1..Len(yamlLines), j \in 1..Len(yamlLines) :
       IsScriptLine(yamlLines, s, r, j) => processed[j] = yamlLines[j]

\* ------------------------------------------------------------- claims: variable extraction
\* the steps of the document under extraction, as <<job, step>>
StepsOfDoc ==
  {x \in (1..Len(jobIds(varDoc))) \X (1..MaxVarEdits) :
     ~jobAt(varDoc, x[1]).null /\ x[2] <= Len(jobAt(varDoc, x[1]).steps)}

RunOf(x) == jobAt(varDoc, x[1]).steps[x[2]].run

\* what the Variables view lists for the step (nothing when it has no entry)
InfoVars(x) ==
  LET es == SelectSeq(info.steps, LAMBDA e : e.jobId = x[1] /\ e.stepIndex = x[2] - 1)
  IN IF Len(es) = 0 THEN <<>> ELSE es[1].variables

\* what the graph view lists for the step
NodeVars(x) == nodeVars[x[1]][x[2]]

GithubEnvEntries(vs) == SelectSeq(vs, LAMBDA e : e.type = "github_env")

BuildIdEcho == Echo("BUILD_ID", "${GITHUB_RUN_NUMBER}")

\* the script has the echo line and no other assignment to GITHUB_ENV
HasBuildIdEcho(x) == SelectSeq(RunOf(x), IsEnvExport) = <<BuildIdEcho>>

RunNumberReplaced(value) ==
  [i \in 1..Len(value) |-> IF value[i] = "${GITHUB_RUN_NUMBER}" THEN "42" ELSE value[i]]

\* one github_env entry, named BUILD_ID, predicted as its value with the run
\* number filled in
OneBuildId(vs) ==
  /\ Len(GithubEnvEntries(vs)) = 1
  /\ LET e == GithubEnvEntries(vs)[1]
     IN /\ e.name = "BUILD_ID"
        /\ "predictedValue" \in DOMAIN e
        /\ e.predictedValue = RunNumberReplaced(e.value)

\* C17: for a step whose script has `echo "BUILD_ID=${GITHUB_RUN_NUMBER}" >>
\* $GITHUB_ENV`, both extractors list exactly one github_env variable, named
\* BUILD_ID, whose predicted value is its value with ${GITHUB_RUN_NUMBER}
\* replaced by 42.
C17_BuildIdPredicted ==
  ~info.threw =>
     \A x \in StepsOfDoc : HasBuildIdEcho(x) => (OneBuildId(NodeVars(x)) /\ OneBuildId(InfoVars(x)))

IsSecretRef(t) == t.k = "expr" /\ t.p = "secrets"

SecretEntries(vs) == SelectSeq(vs, LAMBDA e : e.type = "expression" /\ e.subtype = "secret")

\* the entries of subtype secret stand one for one for the references, each
\* with the placeholder as its predicted value
SecretsListed(vs, refs) ==
  /\ Len(SecretEntries(vs)) = Len(refs)
  /\ \A j \in 1..Len(refs) :
       /\ SecretEntries(vs)[j].expression = <<"secrets", refs[j].n>>
       /\ SecretEntries(vs)[j].predictedValue = <<"****** (secret)">>

AllSecretRefs == SelectSeq(workflowStr(varDoc), IsSecretRef)

\* C18: every ${{ secrets.<name> }} of a step has an expression entry of
\* subtype secret predicted as the redaction placeholder, whatever the name, in
\* both extractors; the distinct-secrets list has exactly the referenced names,
\* each once.
C18_SecretsRedacted ==
  ~info.threw =>
     /\ \A x \in StepsOfDoc :
          LET refs == SelectSeq(RunOf(x), IsSecretRef)
          IN SecretsListed(NodeVars(x), refs) /\ SecretsListed(InfoVars(x), refs)
     /\ Range(info.secrets) = {t.n : t \in Range(AllSecretRefs)}
     /\ \A a, b \in 1..Len(info.secrets) : info.secrets[a] = info.secrets[b] => a = b

\* two names are referenced, one of them more than once
C18_Witness ==
  /\ ~info.threw
  /\ Len(info.secrets) = 2
  /\ Len(AllSecretRefs) > 2
  /\ \E x \in StepsOfDoc : Len(SecretEntries(InfoVars(x))) > 1

IsEnvRef(t) == t.k = "expr" /\ t.p = "env"

\* the prediction the scopes call for in job i: the job's own binding, else the
\* workflow's, else the description that names the variable (a step has no
\* env block of its own in these documents)
ScopedPrediction(i, e) ==
  IF jobAt(varDoc, i).env[e] # "none" THEN <<"String(value)", i, jobAt(varDoc, i).env[e]>>
  ELSE IF varDoc.env[e] # "none" THEN <<"String(value)", NoJob, varDoc.env[e]>>
  ELSE <<"Value of environment variable", e>>

\* the env entries stand one for one for the references, each predicted from
\* the scope that applies
EnvPredicted(vs, subtype, i, refs) ==
  LET es == SelectSeq(vs, LAMBDA e : e.type = "expression" /\ e.subtype = subtype)
  IN /\ Len(es) = Len(refs)
     /\ \A j \in 1..Len(refs) :
          /\ Len(es[j].predictedValue) = Len(ScopedPrediction(i, refs[j].n))
          /\ es[j].predictedValue = ScopedPrediction(i, refs[j].n)

\* C22: the predicted value of ${{ env.X }} in a step comes from the most
\* specific scope that binds X for that step (its job's env over the
\* workflow's), never from another job; when nothing binds X it is the
\* description that names X.
C22_MostSpecificScope ==
  ~info.threw =>
     \A x \in StepsOfDoc :
        LET refs == SelectSeq(RunOf(x), IsEnvRef)
        IN /\ EnvPredicted(InfoVars(x), "env", x[1], refs)
           /\ EnvPredicted(NodeVars(x), "environment", x[1], refs)

\* two predicted values are the same text (undefined is the same as undefined only)
SamePrediction(p, q) ==
  /\ Len(p) = Len(q)
  /\ Len(p) > 0 => (p[1] = q[1] /\ \A i \in 2..Len(p) : p[i] = q[i])

PredictionOf(e) == IF "predictedValue" \in DOMAIN e THEN e.predictedValue ELSE Undefined

\* two entries with the same type, subtype, name and predicted value
SameEntry(a, b) ==
  /\ a.type = b.type
  /\ a.type = "expression" => (a.subtype = b.subtype /\ a.expression = b.expression)
  /\ a.type = "github_env" => a.name = b.name
  /\ SamePrediction(PredictionOf(a), PredictionOf(b))

\* C27: for every step of the document, the list analyzeStepVariables makes
\* for the step node has the same entries as the list analyzeVariables makes
\* for that step: same types, subtypes, names and predicted values, in order.
C27_ExtractorsAgree ==
  ~info.threw =>
     \A x \in StepsOfDoc :
        /\ Len(NodeVars(x)) = Len(InfoVars(x))
        /\ \A k \in 1..Len(NodeVars(x)) : SameEntry(NodeVars(x)[k], InfoVars(x)[k])

\* ------------------------------------------------------------- claims: suggestions
Suggested(x) == includes(suggestions.list, x)

\* no job of the document has a timeout_minutes key
noJobHasTimeout(wf) == \A i \in Range(jobIds(wf)) : jobAt(wf, i).timeout = "absent"

\* C23: for a document with jobs the job-timeout recommendation is emitted if
\* and only if no job declares a timeout; one job that declares one
\* suppresses it for the whole document.
C23_TimeoutIffNone ==
  (~suggestions.threw /\ Len(jobIds(varDoc)) > 0) =>
     (Suggested("timeout") <=> noJobHasTimeout(varDoc))

====
